---- MODULE Spec2Model ----
(***************************************************************************)
(* Room registry and connection lifecycle of the Y.js WebSocket server     *)
(* (src/server.cjs and its variant src/unnamed/part_000, which adds the    *)
(* docs map and getYDoc).                                                  *)
(*                                                                         *)
(* Node runs every event handler to completion, so each handler is one     *)
(* atomic action.  Strings are sequences of one-character strings.         *)
(* Timestamps (new Date()) are readings of a non-decreasing logical clock. *)
(***************************************************************************)
EXTENDS Integers, Sequences, FiniteSets

VARIABLES
    activeRooms,      \* Map roomName -> {createdAt, connectionCount, lastActivity}
    connectionStats,  \* {totalConnections, activeConnections, roomsCreated}
    docs,             \* Map roomName -> Y.Doc (identity of the allocated doc)
    conns,            \* per accepted connection: closure state of its handlers
    clock,            \* last reading of the wall clock
    phase,            \* "running" | "closing" (wss.close called) | "exited"
    event,            \* the handler that ran last and the connection it ran for
    console,          \* the records the last handler printed
    path,             \* input of the path-resolution check
    resolved          \* <<>> or <<room name>>: result of the path-resolution check

vars == <<activeRooms, connectionStats, docs, conns, clock, phase, event,
          console, path, resolved>>

serverVars == <<activeRooms, connectionStats, docs, conns, clock, phase, event,
                console>>

(***************************************************************************)
(* Bounds                                                                  *)
(***************************************************************************)
MaxConns == 3      \* connections accepted in one run
MaxClock == 1      \* largest clock reading
MaxUrlLen == 2     \* longest request url of an accepted connection
MaxPathLen == 6    \* longest path given to the path-resolution check
MaxCloses == 2     \* runs of the close handler per connection (SpecDup only)

Alphabet == {"/", "a"}

RECURSIVE SeqsOfLen(_)
SeqsOfLen(n) ==
    IF n = 0 THEN {<<>>}
    ELSE {Append(s, ch) : s \in SeqsOfLen(n - 1), ch \in Alphabet}

SeqsUpTo(n) == UNION {SeqsOfLen(k) : k \in 0..n}

Paths == SeqsUpTo(MaxPathLen)

\* req.url of an upgrade request: a non-empty request target starting with "/"
Urls == {u \in SeqsUpTo(MaxUrlLen) : Len(u) >= 1 /\ u[1] = "/"}

DefaultRoom == <<"d", "e", "f", "a", "u", "l", "t">>

ConnIds == 1..MaxConns

(***************************************************************************)
(* Pure helpers                                                            *)
(***************************************************************************)
\* String.prototype.slice(1): everything after the first character
Slice1(s) == SubSeq(s, 2, Len(s))

\* const roomName = url ? url.slice(1) : 'default';   ("" is falsy)
resolveRoomName(url) == IF url # <<>> THEN Slice1(url) ELSE DefaultRoom

RoomNames == {resolveRoomName(u) : u \in Urls}

RECURSIVE SumCounts(_, _)
SumCounts(rooms, names) ==
    IF names = {} THEN 0
    ELSE LET r == CHOOSE x \in names : TRUE
         IN  rooms[r].connectionCount + SumCounts(rooms, names \ {r})

\* activeRooms.size
Size(rooms) == Cardinality(DOMAIN rooms)

EmptyMap == [r \in {} |-> 0]

(***************************************************************************)
(* Console records.  Every record has the same fields; a field a log line  *)
(* does not print holds its default.                                       *)
(***************************************************************************)
LogLine(kind, room, active, rooms, total, created, details) ==
    [kind |-> kind, room |-> room, active |-> active, rooms |-> rooms,
     total |-> total, created |-> created, details |-> details]

\* "New client connected to room" / "Client disconnected from room"
\* / "Room ... created" / "Room ... closed" / "WebSocket error in room"
RoomLine(kind, room) == LogLine(kind, room, 0, 0, 0, 0, EmptyMap)

\* "Stats: N active connections, M rooms"
StatsLine(stats, rooms) ==
    LogLine("stats", <<>>, stats.activeConnections, Size(rooms), 0, 0, EmptyMap)

\* what the reporter prints per room: connectionCount and lastActivity
RoomDetails(rooms) ==
    [r \in DOMAIN rooms |->
        [connectionCount |-> rooms[r].connectionCount,
         lastActivity |-> rooms[r].lastActivity]]

\* "Server status:" with active connections, active rooms, total connections
\* and, when there are rooms, the per-room details
StatusLine(stats, rooms) ==
    LogLine("status", <<>>, stats.activeConnections, Size(rooms),
            stats.totalConnections, 0, RoomDetails(rooms))

\* "Final stats:" total connections, rooms created, active rooms at shutdown
FinalLine(stats, rooms) ==
    LogLine("final", <<>>, 0, Size(rooms), stats.totalConnections,
            stats.roomsCreated, EmptyMap)

(***************************************************************************)
(* Room table and counters                                                 *)
(***************************************************************************)
\* variant: the accepted connection is not added to totalConnections
StatsAcceptedActiveOnly(stats) ==
    [stats EXCEPT !.activeConnections = @ + 1]

\* connectionStats.totalConnections++; connectionStats.activeConnections++;
StatsAccepted(stats) ==
    [stats EXCEPT !.totalConnections = @ + 1, !.activeConnections = @ + 1]

\* variant: roomsCreated++ outside the !activeRooms.has branch
StatsRoomCreatedAlways(stats, rooms, roomName) ==
    [stats EXCEPT !.roomsCreated = @ + 1]

\* connectionStats.roomsCreated++ (inside the !activeRooms.has branch)
StatsRoomCreated(stats, rooms, roomName) ==
    IF roomName \notin DOMAIN rooms
    THEN [stats EXCEPT !.roomsCreated = @ + 1]
    ELSE stats

\* variant: the close handler does not decrement activeConnections
StatsClosedSkip(stats) == stats

\* variant: the close handler decrements totalConnections
StatsClosedTotal(stats) == [stats EXCEPT !.totalConnections = @ - 1]

\* connectionStats.activeConnections--;
StatsClosed(stats) == [stats EXCEPT !.activeConnections = @ - 1]

\* if (!activeRooms.has(roomName)) activeRooms.set(roomName, {...count 0...})
RoomCreate(rooms, roomName, now) ==
    IF roomName \notin DOMAIN rooms
    THEN [r \in DOMAIN rooms \cup {roomName} |->
            IF r = roomName
            THEN [createdAt |-> now, connectionCount |-> 0, lastActivity |-> now]
            ELSE rooms[r]]
    ELSE rooms

\* variant: the join overwrites the count (roomData.connectionCount = 1)
RoomTouchLost(rooms, roomName, now) ==
    [rooms EXCEPT ![roomName].connectionCount = 1,
                  ![roomName].lastActivity = now]

\* variant: the join also rewrites createdAt
RoomTouchResetsCreated(rooms, roomName, now) ==
    [rooms EXCEPT ![roomName].connectionCount = @ + 1,
                  ![roomName].lastActivity = now,
                  ![roomName].createdAt = now]

\* roomData.connectionCount++; roomData.lastActivity = new Date();
RoomTouch(rooms, roomName, now) ==
    [rooms EXCEPT ![roomName].connectionCount = @ + 1,
                  ![roomName].lastActivity = now]

\* the room part of the connection handler
RoomJoin(rooms, roomName, tCreate, tJoin) ==
    RoomTouch(RoomCreate(rooms, roomName, tCreate), roomName, tJoin)

\* variant: eviction only below zero (connectionCount < 0)
RoomEvictBelowZero(rooms, roomName) ==
    IF rooms[roomName].connectionCount < 0
    THEN [r \in DOMAIN rooms \ {roomName} |-> rooms[r]]
    ELSE rooms

\* variant: the eviction empties the table (activeRooms.clear())
RoomEvictClear(rooms, roomName) ==
    IF rooms[roomName].connectionCount <= 0
    THEN [r \in {} |-> 0]
    ELSE rooms

\* if (roomData.connectionCount <= 0) activeRooms.delete(roomName)
RoomEvict(rooms, roomName) ==
    IF rooms[roomName].connectionCount <= 0
    THEN [r \in DOMAIN rooms \ {roomName} |-> rooms[r]]
    ELSE rooms

\* variant: the close handler decrements and never deletes the entry
RoomLeaveNoEvict(rooms, roomName) ==
    IF roomName \in DOMAIN rooms
    THEN [rooms EXCEPT ![roomName].connectionCount = @ - 1]
    ELSE rooms

\* variant: the close handler registers an entry for a name it does not find
RoomLeaveUpsert(rooms, roomName) ==
    IF roomName \in DOMAIN rooms
    THEN LET rooms1 == [rooms EXCEPT ![roomName].connectionCount = @ - 1]
         IN  IF rooms1[roomName].connectionCount <= 0
             THEN [r \in DOMAIN rooms1 \ {roomName} |-> rooms1[r]]
             ELSE rooms1
    ELSE [r \in DOMAIN rooms \cup {roomName} |->
            IF r = roomName
            THEN [createdAt |-> 0, connectionCount |-> 0, lastActivity |-> 0]
            ELSE rooms[r]]

\* the room part of the close handler
RoomLeave(rooms, roomName) ==
    IF roomName \in DOMAIN rooms
    THEN RoomEvict([rooms EXCEPT ![roomName].connectionCount = @ - 1], roomName)
    ELSE rooms

\* getYDoc: the doc of the room, allocated (a new identity) when absent
getYDoc(docMap, roomName) ==
    IF roomName \in DOMAIN docMap
    THEN docMap
    ELSE [r \in DOMAIN docMap \cup {roomName} |->
            IF r = roomName THEN Cardinality(DOMAIN docMap) + 1 ELSE docMap[r]]

(***************************************************************************)
(* Initial state: the module has been loaded, nothing accepted yet         *)
(***************************************************************************)
\* state: "none" (not accepted), "open" (handlers registered), "closed";
\* roomName: the closure variable of the handlers; errored: 'error' was
\* emitted; cleanups: runs of the close cleanup; first: which of 'close' and
\* 'error' was emitted first
NoConn ==
    [state |-> "none", roomName |-> <<>>, errored |-> FALSE, cleanups |-> 0,
     first |-> "none"]

ServerInit ==
    /\ activeRooms = EmptyMap
    /\ connectionStats =
         [totalConnections |-> 0, activeConnections |-> 0, roomsCreated |-> 0]
    /\ docs = EmptyMap
    /\ conns = [c \in ConnIds |-> NoConn]
    /\ clock = 0
    /\ phase = "running"
    /\ event = [kind |-> "init", conn |-> 0]
    /\ console = <<>>

Init ==
    /\ ServerInit
    /\ path = <<>>
    /\ resolved = <<>>

(***************************************************************************)
(* Handlers                                                                *)
(***************************************************************************)
\* wss.on('connection'): the next connection is accepted with request url
\* `url`; tCreate and tJoin are the clock readings of createdAt and of the
\* final lastActivity.  wss.close() detaches the listener, so nothing is
\* accepted once shutdown has begun.
OnConnection(url, tCreate, tJoin) ==
    LET c == connectionStats.totalConnections + 1
        roomName == resolveRoomName(url)
        stats1 == StatsAccepted(connectionStats)
        isNew == roomName \notin DOMAIN activeRooms
    IN  /\ phase = "running"
        /\ c \in ConnIds
        /\ clock <= tCreate /\ tCreate <= tJoin /\ tJoin <= MaxClock
        /\ connectionStats' = StatsRoomCreated(stats1, activeRooms, roomName)
        /\ activeRooms' = RoomJoin(activeRooms, roomName, tCreate, tJoin)
        /\ docs' = getYDoc(docs, roomName)
        /\ conns' = [conns EXCEPT ![c] =
                        [state |-> "open", roomName |-> roomName,
                         errored |-> FALSE, cleanups |-> 0, first |-> "none"]]
        /\ clock' = tJoin
        /\ event' = [kind |-> "connection", conn |-> c]
        /\ console' = <<RoomLine("connected", roomName),
                        StatsLine(stats1, activeRooms)>>
                      \o (IF isNew THEN <<RoomLine("created", roomName)>>
                          ELSE <<>>)
        /\ UNCHANGED <<phase, path, resolved>>

\* variant: roomName is one variable shared by all connections, so the close
\* handler sees the name of the connection accepted last
CloseHandlerLatestRoom(c) ==
    LET roomName == conns[connectionStats.totalConnections].roomName
        stats1 == StatsClosed(connectionStats)
        rooms1 == RoomLeave(activeRooms, roomName)
        evicted == roomName \in DOMAIN activeRooms /\ roomName \notin DOMAIN rooms1
    IN  /\ connectionStats' = stats1
        /\ activeRooms' = rooms1
        /\ conns' = [conns EXCEPT ![c].state = "closed", ![c].cleanups = @ + 1,
                                  ![c].first = IF @ = "none" THEN "close" ELSE @]
        /\ event' = [kind |-> "close", conn |-> c]
        /\ console' = (IF evicted THEN <<RoomLine("closed", roomName)>>
                       ELSE <<>>)
                      \o <<RoomLine("disconnected", roomName),
                           StatsLine(stats1, rooms1)>>
        /\ UNCHANGED <<docs, clock, phase, path, resolved>>

\* body of ws.on('close') for connection c
CloseHandler(c) ==
    LET roomName == conns[c].roomName
        stats1 == StatsClosed(connectionStats)
        rooms1 == RoomLeave(activeRooms, roomName)
        evicted == roomName \in DOMAIN activeRooms /\ roomName \notin DOMAIN rooms1
    IN  /\ connectionStats' = stats1
        /\ activeRooms' = rooms1
        /\ conns' = [conns EXCEPT ![c].state = "closed", ![c].cleanups = @ + 1,
                                  ![c].first = IF @ = "none" THEN "close" ELSE @]
        /\ event' = [kind |-> "close", conn |-> c]
        /\ console' = (IF evicted THEN <<RoomLine("closed", roomName)>>
                       ELSE <<>>)
                      \o <<RoomLine("disconnected", roomName),
                           StatsLine(stats1, rooms1)>>
        /\ UNCHANGED <<docs, clock, phase, path, resolved>>

\* the transport emits 'close' once for an open connection
OnClose(c) ==
    /\ phase # "exited"
    /\ conns[c].state = "open"
    /\ CloseHandler(c)

\* variant: the error handler runs the close cleanup as well
ErrorHandlerCleanup(c) ==
    /\ connectionStats' = [connectionStats EXCEPT !.activeConnections = @ - 1]
    /\ activeRooms' =
         (IF conns[c].roomName \in DOMAIN activeRooms
          THEN LET rooms1 == [activeRooms EXCEPT
                                 ![conns[c].roomName].connectionCount = @ - 1]
               IN  IF rooms1[conns[c].roomName].connectionCount <= 0
                   THEN [r \in DOMAIN rooms1 \ {conns[c].roomName} |-> rooms1[r]]
                   ELSE rooms1
          ELSE activeRooms)
    /\ conns' = [conns EXCEPT ![c].errored = TRUE, ![c].cleanups = @ + 1,
                              ![c].first = IF @ = "none" THEN "error" ELSE @]
    /\ event' = [kind |-> "error", conn |-> c]
    /\ console' = <<[kind |-> "error", room |-> conns[c].roomName, active |-> 0,
                     rooms |-> 0, total |-> 0, created |-> 0,
                     details |-> [r \in {} |-> 0]]>>
    /\ UNCHANGED <<docs, clock, phase, path, resolved>>

\* body of ws.on('error') for connection c: one console.error line
ErrorHandler(c) ==
    /\ conns' = [conns EXCEPT ![c].errored = TRUE,
                              ![c].first = IF @ = "none" THEN "error" ELSE @]
    /\ event' = [kind |-> "error", conn |-> c]
    /\ console' = <<RoomLine("error", conns[c].roomName)>>
    /\ UNCHANGED <<activeRooms, connectionStats, docs, clock, phase, path, resolved>>

\* the transport emits 'error' on a connection whose handlers are registered,
\* before or after its 'close'
OnError(c) ==
    /\ phase # "exited"
    /\ conns[c].state \in {"open", "closed"}
    /\ ~conns[c].errored
    /\ ErrorHandler(c)

\* process.on('SIGINT'): final stats, then wss.close(callback)
OnSigint ==
    /\ phase # "exited"
    /\ phase' = "closing"
    /\ event' = [kind |-> "sigint", conn |-> 0]
    /\ console' = <<FinalLine(connectionStats, activeRooms)>>
    /\ UNCHANGED <<activeRooms, connectionStats, docs, conns, clock, path, resolved>>

\* callback of wss.close: process.exit(0).  When the callback runs relative
\* to the close events of the connections still open is decided by the ws
\* package, so it may run at any point after wss.close.
OnWssClosed ==
    /\ phase = "closing"
    /\ phase' = "exited"
    /\ event' = [kind |-> "exit", conn |-> 0]
    /\ console' = <<RoomLine("shutdown", <<>>)>>
    /\ UNCHANGED <<activeRooms, connectionStats, docs, conns, clock, path, resolved>>

\* variant: the reporter prints its record on every tick
OnReporterTickAlways ==
    /\ phase # "exited"
    /\ event' = [kind |-> "tick", conn |-> 0]
    /\ console' = <<StatusLine(connectionStats, activeRooms)>>
    /\ UNCHANGED <<activeRooms, connectionStats, docs, conns, clock, phase, path, resolved>>

\* setInterval callback: the periodic status report
OnReporterTick ==
    /\ phase # "exited"
    /\ event' = [kind |-> "tick", conn |-> 0]
    /\ console' = (IF connectionStats.activeConnections > 0 \/ Size(activeRooms) > 0
                   THEN <<StatusLine(connectionStats, activeRooms)>>
                   ELSE <<>>)
    /\ UNCHANGED <<activeRooms, connectionStats, docs, conns, clock, phase, path, resolved>>

Next ==
    \/ \E url \in Urls, tCreate, tJoin \in 0..MaxClock : OnConnection(url, tCreate, tJoin)
    \/ \E c \in ConnIds : OnClose(c)
    \/ \E c \in ConnIds : OnError(c)
    \/ OnSigint
    \/ OnWssClosed
    \/ OnReporterTick

Spec == Init /\ [][Next]_vars

(***************************************************************************)
(* The close handler run again for a connection whose cleanup already ran  *)
(***************************************************************************)
OnCloseAgain(c) ==
    /\ phase # "exited"
    /\ conns[c].state = "closed"
    /\ conns[c].cleanups < MaxCloses
    /\ CloseHandler(c)

NextDup ==
    \/ Next
    \/ \E c \in ConnIds : OnCloseAgain(c)

SpecDup == Init /\ [][NextDup]_vars

\* joins and leaves alone, a leave possibly repeated: the steps that touch
\* the room table
NextLeave ==
    \/ \E url \in Urls, tCreate, tJoin \in 0..MaxClock : OnConnection(url, tCreate, tJoin)
    \/ \E c \in ConnIds : OnClose(c)
    \/ \E c \in ConnIds : OnCloseAgain(c)

SpecLeave == Init /\ [][NextLeave]_vars

(***************************************************************************)
(* Path resolution as a pure function of the request path                  *)
(***************************************************************************)
InitResolve ==
    /\ ServerInit
    /\ path \in Paths
    /\ resolved = <<>>

Resolve ==
    /\ resolved = <<>>
    /\ resolved' = <<resolveRoomName(path)>>
    /\ UNCHANGED <<path, serverVars>>

NextResolve == Resolve

SpecResolve == InitResolve /\ [][NextResolve]_vars

(***************************************************************************)
(* Properties                                                              *)
(***************************************************************************)
Open == {c \in ConnIds : conns[c].state = "open"}

Closed == {c \in ConnIds : conns[c].state = "closed"}

\* connections that joined room r and whose close has not been delivered
Attached(r) == Cardinality({c \in Open : conns[c].roomName = r})

\* a step of the connection handler
JoinStep == event'.kind = "connection" /\ event' # event

\* the room the connection handler of a JoinStep joined
JoinedRoom == conns'[event'.conn].roomName

\* C1: in every reachable state activeConnections is the sum of the
\* connectionCount of the rooms in the activeRooms table.
C1_ActiveIsSumOfCounts ==
    connectionStats.activeConnections = SumCounts(activeRooms, DOMAIN activeRooms)

\* two rooms remain after a close that left its own room in the table
C1_Witness ==
    /\ event.kind = "close"
    /\ conns[event.conn].roomName \in DOMAIN activeRooms
    /\ Size(activeRooms) = 2
    /\ connectionStats.activeConnections = 2

\* C2: for every room name, the stored connectionCount is the number of
\* connections that joined it and were not yet cleaned up, whatever the
\* interleaving of the handlers; a room without attached connections has no
\* entry.
C2_CountIsAttached ==
    \A r \in RoomNames :
        /\ r \in DOMAIN activeRooms => activeRooms[r].connectionCount = Attached(r)
        /\ Attached(r) = 0 => r \notin DOMAIN activeRooms
        /\ Attached(r) > 0 => r \in DOMAIN activeRooms

\* three connections joined one room; two have closed, one of them a later
\* joiner than the connection still attached
C2_Witness ==
    /\ event.kind = "close"
    /\ \E r \in DOMAIN activeRooms :
          /\ activeRooms[r].connectionCount = 1
          /\ Cardinality({c \in Closed : conns[c].roomName = r}) = 2
          /\ \E co \in Open, cc \in Closed :
                conns[co].roomName = r /\ conns[cc].roomName = r /\ co < cc

\* C3: between handlers every room in the table has connectionCount > 0;
\* a room leaves the table only in the close step that takes its count from
\* one to zero.
C3_RoomIffPositive ==
    /\ [](\A r \in DOMAIN activeRooms : activeRooms[r].connectionCount > 0)
    /\ [][\A r \in DOMAIN activeRooms :
            r \notin DOMAIN activeRooms' =>
                /\ event'.kind = "close"
                /\ conns[event'.conn].roomName = r
                /\ activeRooms[r].connectionCount = 1]_vars

\* a close evicted its room while another room stays in the table
C3_Witness ==
    /\ event.kind = "close"
    /\ conns[event.conn].roomName \notin DOMAIN activeRooms
    /\ Size(activeRooms) >= 1

\* C4: after a transport error on a joined connection the cleanup has been
\* performed for it, whether or not a close is delivered: activeConnections
\* counts only the connections that neither errored nor closed.
C4_ErrorCleansUp ==
    /\ \A c \in ConnIds : conns[c].errored => conns[c].cleanups >= 1
    /\ connectionStats.activeConnections =
          Cardinality({c \in Open : ~conns[c].errored})

\* C5: on a connection on which both error and close fired, in either
\* order, the cleanup ran exactly once; when that is the case for every
\* accepted connection, no count is left.
C5_CleanupOnce ==
    /\ \A c \in ConnIds :
          (conns[c].errored /\ conns[c].state = "closed") => conns[c].cleanups = 1
    /\ (/\ connectionStats.totalConnections > 0
        /\ \A c \in ConnIds :
              conns[c].state # "none" =>
                 (conns[c].errored /\ conns[c].state = "closed"))
       => (connectionStats.activeConnections = 0 /\ activeRooms = EmptyMap)

\* both orders have happened: error then close on one connection, close
\* then error on another
C5_Witness ==
    \E c1, c2 \in Closed :
        /\ conns[c1].errored /\ conns[c1].first = "error"
        /\ conns[c2].errored /\ conns[c2].first = "close"

\* C6: when the close cleanup runs again for a departed connection, no count
\* goes negative and the counts still match the attached connections.
C6_RepeatedLeaveClamped ==
    /\ connectionStats.activeConnections >= 0
    /\ connectionStats.activeConnections = Cardinality(Open)
    /\ \A r \in DOMAIN activeRooms : activeRooms[r].connectionCount >= 0
    /\ \A r \in RoomNames :
          IF Attached(r) > 0
          THEN r \in DOMAIN activeRooms /\ activeRooms[r].connectionCount = Attached(r)
          ELSE r \notin DOMAIN activeRooms

\* C7: totalConnections >= activeConnections >= 0 in every reachable state.
C7_TotalAtLeastActive ==
    /\ connectionStats.totalConnections >= connectionStats.activeConnections
    /\ connectionStats.activeConnections >= 0

\* several connections were accepted and the last of them has just closed
C7_Witness ==
    /\ connectionStats.totalConnections >= 2
    /\ connectionStats.activeConnections = 0
    /\ event.kind = "close"

\* C8: totalConnections grows by one in a connection step and is unchanged
\* by every other step; roomsCreated changes only in a connection step that
\* creates a room, by one; neither ever decreases.
C8_CountersMonotone ==
    [][/\ JoinStep =>
            connectionStats'.totalConnections = connectionStats.totalConnections + 1
       /\ ~JoinStep =>
            connectionStats'.totalConnections = connectionStats.totalConnections
       /\ connectionStats'.roomsCreated >= connectionStats.roomsCreated
       /\ connectionStats'.roomsCreated # connectionStats.roomsCreated =>
            /\ JoinStep
            /\ JoinedRoom \notin DOMAIN activeRooms
            /\ connectionStats'.roomsCreated = connectionStats.roomsCreated + 1]_vars

\* the process has exited after joins (one of them to an existing room), an
\* error and a close
C8_Witness ==
    /\ phase = "exited"
    /\ connectionStats.totalConnections >= 2
    /\ connectionStats.roomsCreated >= 1
    /\ connectionStats.roomsCreated < connectionStats.totalConnections
    /\ \E c \in Closed : conns[c].errored

\* the reference function of C9: strip one leading separator, default when
\* the result is empty
RefResolve(p) ==
    LET stripped == IF p # <<>> /\ p[1] = "/" THEN SubSeq(p, 2, Len(p)) ELSE p
    IN  IF stripped = <<>> THEN DefaultRoom ELSE stripped

\* C9: room-name resolution equals the reference function on every path;
\* "/alpha"-like paths lose the separator, "" and "/" give "default".
C9_ResolveMatchesReference ==
    resolved # <<>> => resolved[1] = RefResolve(path)

\* C10: a join to a name absent from the table creates the room with
\* connectionCount 1 and adds one to roomsCreated; a join to a name in the
\* table adds one to its connectionCount and leaves roomsCreated and the
\* number of rooms unchanged.
C10_JoinCreatesOrIncrements ==
    [][JoinStep =>
         IF JoinedRoom \notin DOMAIN activeRooms
         THEN /\ JoinedRoom \in DOMAIN activeRooms'
              /\ activeRooms'[JoinedRoom].connectionCount = 1
              /\ connectionStats'.roomsCreated = connectionStats.roomsCreated + 1
              /\ Size(activeRooms') = Size(activeRooms) + 1
         ELSE /\ activeRooms'[JoinedRoom].connectionCount =
                    activeRooms[JoinedRoom].connectionCount + 1
              /\ connectionStats'.roomsCreated = connectionStats.roomsCreated
              /\ Size(activeRooms') = Size(activeRooms)]_vars

\* a join to a name whose room had been evicted: one name, created twice
C10_Witness ==
    /\ event.kind = "connection"
    /\ connectionStats.roomsCreated = 2
    /\ \E r \in DOMAIN activeRooms :
          /\ activeRooms[r].connectionCount = 1
          /\ \A c \in ConnIds : conns[c].state # "none" => conns[c].roomName = r

\* a step of the close handler (for connection event'.conn)
CloseStep ==
    /\ event'.kind = "close"
    /\ conns'[event'.conn].cleanups = conns[event'.conn].cleanups + 1

\* connections accepted so far
Accepted == {c \in ConnIds : conns[c].state # "none"}

\* C11: whenever every accepted connection has been closed, the room table
\* is empty, activeConnections is 0 and totalConnections is the number of
\* connections ever accepted.
C11_AllClosedLeavesNothing ==
    (Accepted # {} /\ Open = {}) =>
        /\ activeRooms = EmptyMap
        /\ connectionStats.activeConnections = 0
        /\ connectionStats.totalConnections = Cardinality(Accepted)

\* all of several connections are closed, a later joiner before an earlier
\* one, with two rooms created on the way
C11_Witness ==
    /\ Cardinality(Accepted) >= 3
    /\ Open = {}
    /\ event.kind = "close"
    /\ event.conn = 1
    /\ connectionStats.roomsCreated >= 2

\* C12: once a room has been evicted the document registry holds no handle
\* for its name: every name in docs is a room of the table.
C12_EvictionReleasesDoc ==
    \A r \in DOMAIN docs : r \in DOMAIN activeRooms

\* C13: a close cleanup that finds no entry for its room name leaves the
\* room table exactly as it was.
C13_LeaveUnknownRoomNoOp ==
    [][(CloseStep /\ conns[event'.conn].roomName \notin DOMAIN activeRooms)
          => activeRooms' = activeRooms]_vars

\* the cleanup ran again for a connection whose room was already evicted,
\* while another room is in the table
C13_Witness ==
    /\ event.kind = "close"
    /\ conns[event.conn].cleanups = 2
    /\ conns[event.conn].roomName \notin DOMAIN activeRooms
    /\ Size(activeRooms) >= 1
    /\ Attached(conns[event.conn].roomName) = 0

\* C14: a reporter tick prints a status record exactly when
\* activeConnections > 0 or the table is not empty, and the record lists
\* every room of the table with its connectionCount.
C14_ReporterEmitsIffBusy ==
    event.kind = "tick" =>
        /\ console # <<>> <=>
              (connectionStats.activeConnections > 0 \/ DOMAIN activeRooms # {})
        /\ console # <<>> =>
              /\ Len(console) = 1
              /\ console[1].kind = "status"
              /\ DOMAIN console[1].details = DOMAIN activeRooms
              /\ \A r \in DOMAIN activeRooms :
                    console[1].details[r].connectionCount =
                        activeRooms[r].connectionCount

\* a tick reported two rooms
C14_Witness ==
    /\ event.kind = "tick"
    /\ console # <<>>
    /\ Size(activeRooms) = 2

\* C15: the snapshot printed on the shutdown signal lists the
\* connectionCount of every room in the table at that time.
C15_FinalSnapshotHasRoomCounts ==
    event.kind = "sigint" =>
        /\ console # <<>>
        /\ DOMAIN console[1].details = DOMAIN activeRooms
        /\ \A r \in DOMAIN activeRooms :
              console[1].details[r].connectionCount = activeRooms[r].connectionCount

\* C16: when the process has exited after the shutdown signal, every
\* connection has gone through the close cleanup: activeConnections is 0
\* and the room table is empty.
C16_ExitAfterDrain ==
    phase = "exited" =>
        /\ Open = {}
        /\ connectionStats.activeConnections = 0
        /\ activeRooms = EmptyMap

\* C17: after the shutdown signal has been handled no periodic status
\* record is printed.
C17_ReporterCancelled ==
    ~(phase = "closing" /\ event.kind = "tick" /\ console # <<>>)

\* C18: the cleanup of a connection runs only after its join and only for
\* accepted connections, the room name of a joined connection never
\* changes, and the cleanup takes one from the count of that room (evicting
\* it at zero), whatever happened in between.
C18_CleanupAfterJoinOnCapturedRoom ==
    /\ [](\A c \in ConnIds : conns[c].state = "none" => conns[c].cleanups = 0)
    /\ [][/\ \A c \in ConnIds :
               conns[c].state # "none" => conns'[c].roomName = conns[c].roomName
          /\ CloseStep =>
               LET c == event'.conn
                   r == conns[c].roomName
               IN  /\ conns[c].state = "open"
                   /\ r \in DOMAIN activeRooms
                   /\ IF activeRooms[r].connectionCount = 1
                      THEN r \notin DOMAIN activeRooms'
                      ELSE /\ r \in DOMAIN activeRooms'
                           /\ activeRooms'[r].connectionCount =
                                 activeRooms[r].connectionCount - 1]_vars

\* a connection closed after a later connection had joined another room
C18_Witness ==
    /\ event.kind = "close"
    /\ \E c \in Open :
          /\ c > event.conn
          /\ conns[c].roomName # conns[event.conn].roomName
    /\ conns[event.conn].roomName \notin DOMAIN activeRooms

\* C19: createdAt of a room never changes while its entry stays in the
\* table; a join sets lastActivity of its room to the time of the join and
\* no other step changes it; createdAt <= lastActivity for every room.
C19_Timestamps ==
    /\ [](\A r \in DOMAIN activeRooms :
             activeRooms[r].createdAt <= activeRooms[r].lastActivity)
    /\ [][/\ \A r \in DOMAIN activeRooms \cap DOMAIN activeRooms' :
               /\ activeRooms'[r].createdAt = activeRooms[r].createdAt
               /\ IF JoinStep /\ JoinedRoom = r
                  THEN activeRooms'[r].lastActivity = clock'
                  ELSE activeRooms'[r].lastActivity = activeRooms[r].lastActivity
          /\ \A r \in DOMAIN activeRooms' \ DOMAIN activeRooms :
               /\ JoinStep /\ JoinedRoom = r
               /\ clock <= activeRooms'[r].createdAt
               /\ activeRooms'[r].lastActivity = clock']_vars

\* a room created at time 0 and joined again at time 1 survived the leave of
\* one of its connections
C19_Witness ==
    /\ event.kind = "close"
    /\ \E r \in DOMAIN activeRooms :
          /\ activeRooms[r].createdAt = 0
          /\ activeRooms[r].lastActivity = 1
          /\ conns[event.conn].roomName = r

\* C20: a join or a close cleanup for room r neither adds, removes nor
\* changes the entry of any other room.
C20_OtherRoomsUntouched ==
    [][(JoinStep \/ CloseStep) =>
         LET r == IF JoinStep THEN JoinedRoom ELSE conns[event'.conn].roomName
         IN  \A r2 \in (DOMAIN activeRooms \cup DOMAIN activeRooms') \ {r} :
                /\ r2 \in DOMAIN activeRooms
                /\ r2 \in DOMAIN activeRooms'
                /\ activeRooms'[r2] = activeRooms[r2]]_vars

\* a close evicted its room and a join created one, each next to another
\* room that stayed in the table
C20_Witness ==
    /\ event.kind = "connection"
    /\ Size(activeRooms) = 2
    /\ Closed # {}
    /\ \A c \in Closed : conns[c].roomName \notin DOMAIN activeRooms
    /\ activeRooms[conns[event.conn].roomName].connectionCount = 1

====
